---- MODULE Spec2Model ----
(***************************************************************************)
(* Model of the Home page component of src/pages/index.tsx: the customer   *)
(* list obtained through useSWR('/api/customers', fetcher) and the "Add    *)
(* Customer" dialog with its draft state and its POST.                     *)
(*                                                                         *)
(* Strings that the code inspects character by character (the email) are   *)
(* sequences of one-character strings; strings that the code only tests    *)
(* for emptiness (names, messages) are TLA+ strings.  An optional value    *)
(* (undefined or a value) is the empty sequence or a one-element sequence. *)
(***************************************************************************)
EXTENDS Naturals, Sequences, FiniteSets

VARIABLES
    open,           \* useState(false): dialog visibility
    newCustomer,    \* useState({firstName, lastName, businessName})
    email,          \* useState(""): the email input
    emailError,     \* useState(""): the email validation error
    data,           \* useSWR: last accepted list, None while undefined
    error,          \* useSWR: last fetch error, None while undefined
    gets,           \* GET /api/customers requests in flight, oldest first
    posts,          \* POST /api/customers requests in flight, oldest first
    getsIssued,     \* number of GET requests issued so far
    postsIssued,    \* number of POST requests issued so far
    consoleErrors,  \* number of console.error calls made by handleAddCustomer
    lastFetched,    \* history: body the fetcher returned to the last GET that SWR accepted
    answered        \* history: how the last answered POST ended

vars == <<open, newCustomer, email, emailError, data, error, gets, posts,
          getsIssued, postsIssued, consoleErrors, lastFetched, answered>>

form == <<open, newCustomer, email, emailError>>
swr == <<data, error, lastFetched>>


-----------------------------------------------------------------------------
(* Bounds of the model *)

\* POST requests issued in one behaviour
MaxPosts == 2
\* GET requests issued in one behaviour
MaxGets == 3

-----------------------------------------------------------------------------
(* Values *)

None == <<>>
Some(x) == <<x>>

\* What the user can put in a name field (firstName, lastName, businessName)
NameInputs == {"", "Jane"}

NameFields == {"firstName", "lastName", "businessName"}

\* What the user can put in the email field
EmailInputs ==
    { <<>>,
      <<"b","o","b","@","e","x","a","m","p","l","e">>,
      <<"j","@","d",".","c">>,
      <<"j"," ","@","d",".","c">>,
      <<"j","@","@","d",".","c">>,
      <<"j","@","d",".">> }

InvalidEmailMessage == "Please enter a valid email address"

EmptyCustomer == [firstName |-> "", lastName |-> "", businessName |-> ""]

\* Bodies of a 2xx answer to GET /api/customers
Jane == [firstName |-> "Jane", lastName |-> "Doe", email |-> "jane@doe.com"]
Acme == [firstName |-> "A", lastName |-> "B", email |-> "a@acme.com"]
GetBodies == { <<Jane>>, <<Jane, Acme>> }

\* What a failed request throws: the ApiError body of a non-2xx answer, or
\* the exception of a transport failure
ApiErrors == { [code |-> "500", message |-> "Server error"] }
TransportErrors == { [code |-> "", message |-> "Failed to fetch"] }
Failures == ApiErrors \cup TransportErrors

-----------------------------------------------------------------------------
(* validateEmail: /^[^\s@]+@[^\s@]+\.[^\s@]+$/ *)

Whitespace == {" ", "\t", "\n", "\r"}

\* [^\s@]
IsClassChar(c) == c \notin Whitespace /\ c # "@"

\* positions reachable from a position of `from' by [^\s@]+
AfterClassPlus(s, from) ==
    { j \in 1..Len(s) : \E i \in from : /\ i < j
                                        /\ \A k \in (i+1)..j : IsClassChar(s[k]) }

\* positions reachable from a position of `from' by the literal character c
AfterLiteral(s, from, c) ==
    { i + 1 : i \in { p \in from : p < Len(s) /\ s[p+1] = c } }

validateEmail(s) ==
    LET p1 == AfterClassPlus(s, {0})
        p2 == AfterLiteral(s, p1, "@")
        p3 == AfterClassPlus(s, p2)
        p4 == AfterLiteral(s, p3, ".")
        p5 == AfterClassPlus(s, p4)
    IN  Len(s) \in p5

-----------------------------------------------------------------------------
(* What the render shows *)

\* mutants of CreateDisabled: a check left out
CreateDisabled_NoLastName ==
    \/ newCustomer.firstName = ""
    \/ email = <<>>
    \/ ~validateEmail(email)

CreateDisabled_NoFirstName ==
    \/ newCustomer.lastName = ""
    \/ email = <<>>
    \/ ~validateEmail(email)

\* disabled= of the Create button
CreateDisabled ==
    \/ newCustomer.firstName = ""
    \/ newCustomer.lastName = ""
    \/ email = <<>>
    \/ ~validateEmail(email)

\* helperText= of the email TextField
EmailHelperText ==
    IF emailError # "" THEN emailError
    ELSE IF email = <<>> THEN "Required"
    ELSE ""

\* {error && <Typography color="error">Error: {error.message}</Typography>}
ErrorText == IF error # None THEN Some(<<"Error: ", error[1].message>>) ELSE None

\* {data && (<TableContainer ...>)}: an array, even empty, is truthy
TableRendered == data # None

-----------------------------------------------------------------------------
(* Requests *)

RemoveAt(s, k) == SubSeq(s, 1, k - 1) \o SubSeq(s, k + 1, Len(s))

\* every POST in flight may still call mutate(): keep room for its GET
GetBudget == getsIssued + Len(posts) < MaxGets

\* SWR starts a request: it becomes the current one (FETCH[key]) and every
\* request still in flight is superseded.  by: the POST whose success asked
\* for it through mutate(), 0 when SWR started it by itself
StartGet(by) ==
    /\ gets' = Append([k \in 1..Len(gets) |-> [gets[k] EXCEPT !.current = FALSE]],
                      [by |-> by, current |-> TRUE])
    /\ getsIssued' = getsIssued + 1

\* after construction and mount: nothing typed, the first fetch under way
Init ==
    /\ open = FALSE
    /\ newCustomer = EmptyCustomer
    /\ email = <<>>
    /\ emailError = ""
    /\ data = None
    /\ error = None
    /\ gets = << [by |-> 0, current |-> TRUE] >>
    /\ posts = <<>>
    /\ getsIssued = 1
    /\ postsIssued = 0
    /\ consoleErrors = 0
    /\ lastFetched = None
    /\ answered = [status |-> "none", late |-> FALSE]

-----------------------------------------------------------------------------
(* Dialog *)

\* onClick of the "Add Customer" button, which is rendered inside {data && ...}
\* and lies under the backdrop while the dialog is open
handleClickOpen ==
    /\ data # None
    /\ ~open
    /\ open' = TRUE
    /\ UNCHANGED <<newCustomer, email, emailError, swr, gets, posts,
                   getsIssued, postsIssued, consoleErrors, answered>>

\* mutant of CloseAndReset: setEmail("") left out
CloseAndReset_KeepsEmail ==
    /\ open' = FALSE
    /\ newCustomer' = EmptyCustomer
    /\ email' = email
    /\ emailError' = ""

\* the state updates of handleClose
CloseAndReset ==
    /\ open' = FALSE
    /\ newCustomer' = EmptyCustomer
    /\ email' = <<>>
    /\ emailError' = ""

\* Cancel button, or onClose of the Dialog; every POST in flight has now
\* seen the dialog close
handleClose ==
    /\ open
    /\ CloseAndReset
    /\ posts' = [i \in 1..Len(posts) |-> [posts[i] EXCEPT !.closedSince = TRUE]]
    /\ UNCHANGED <<swr, gets, getsIssued, postsIssued, consoleErrors, answered>>

\* onChange of the firstName, lastName and businessName fields
handleInputChange(name, value) ==
    /\ open
    /\ newCustomer' = [newCustomer EXCEPT ![name] = value]
    /\ UNCHANGED <<open, email, emailError, swr, gets, posts,
                   getsIssued, postsIssued, consoleErrors, answered>>

\* onChange of the email field
EmailChange(value) ==
    /\ open
    /\ email' = value
    /\ emailError' = IF emailError # "" THEN "" ELSE emailError
    /\ UNCHANGED <<open, newCustomer, swr, gets, posts,
                   getsIssued, postsIssued, consoleErrors, answered>>

-----------------------------------------------------------------------------
(* handleAddCustomer *)

\* JSON body of the POST: { ...newCustomer, email }
Payload ==
    [firstName |-> newCustomer.firstName, lastName |-> newCustomer.lastName,
     businessName |-> newCustomer.businessName, email |-> email]

\* mutant of IssuePost: the request is sent twice
IssuePost_Twice ==
    /\ posts' = Append(Append(posts, [id |-> postsIssued + 1, body |-> Payload,
                                      closedSince |-> FALSE]),
                       [id |-> postsIssued + 2, body |-> Payload,
                        closedSince |-> FALSE])
    /\ postsIssued' = postsIssued + 2

\* await fetch('/api/customers', {method: "POST", ...}): the request leaves
IssuePost ==
    /\ posts' = Append(posts, [id |-> postsIssued + 1, body |-> Payload,
                               closedSince |-> FALSE])
    /\ postsIssued' = postsIssued + 1

\* handleAddCustomer, from its start to the await of fetch.  Its first branch
\* is taken only when it runs with an email that fails validateEmail
handleAddCustomer ==
    IF ~validateEmail(email)
    THEN /\ emailError' = InvalidEmailMessage
         /\ UNCHANGED <<open, newCustomer, email, swr, gets, posts,
                        getsIssued, postsIssued, consoleErrors, answered>>
    ELSE /\ IssuePost
         /\ UNCHANGED <<open, newCustomer, email, emailError, swr, gets,
                        getsIssued, consoleErrors, answered>>

\* onClick of the Create button: a disabled button takes no click
ClickCreate ==
    /\ open
    /\ ~CreateDisabled
    /\ postsIssued < MaxPosts
    /\ GetBudget
    /\ handleAddCustomer

DraftEmpty == newCustomer = EmptyCustomer /\ email = <<>> /\ emailError = ""

\* the answer to POST i is observed; late: the dialog was closed after the
\* POST was issued and is open again, with a draft typed in, at this moment
Answered(i, status) ==
    /\ posts' = RemoveAt(posts, i)
    /\ answered' = [status |-> status,
                    late |-> posts[i].closedSince /\ open /\ ~DraftEmpty]

\* mutant of PostOk: mutate() left out
PostOk_NoMutate(i) ==
    /\ i \in 1..Len(posts)
    /\ Answered(i, "ok")
    /\ CloseAndReset
    /\ UNCHANGED <<swr, gets, getsIssued, postsIssued, consoleErrors>>

\* mutant of PostOk: the new record is put in the list at once
PostOk_Optimistic(i) ==
    /\ i \in 1..Len(posts)
    /\ Answered(i, "ok")
    /\ StartGet(posts[i].id)
    /\ CloseAndReset
    /\ data' = IF data = None THEN data ELSE Some(Append(data[1], posts[i].body))
    /\ UNCHANGED <<error, lastFetched, postsIssued, consoleErrors>>

\* mutant of PostOk: an answer to a submission of a dialog closed since is dropped
PostOk_IgnoresStale(i) ==
    /\ i \in 1..Len(posts)
    /\ Answered(i, "ok")
    /\ IF posts[i].closedSince
       THEN UNCHANGED <<form, gets, getsIssued>>
       ELSE StartGet(posts[i].id) /\ CloseAndReset
    /\ UNCHANGED <<swr, postsIssued, consoleErrors>>

\* handleAddCustomer after the await, response.ok: mutate(); handleClose()
PostOk(i) ==
    /\ i \in 1..Len(posts)
    /\ Answered(i, "ok")
    /\ StartGet(posts[i].id)
    /\ CloseAndReset
    /\ UNCHANGED <<swr, postsIssued, consoleErrors>>

\* mutant of PostFail: the dialog is closed in a finally block
PostFail_Closes(i, err) ==
    /\ i \in 1..Len(posts)
    /\ Answered(i, "failed")
    /\ consoleErrors' = consoleErrors + 1
    /\ CloseAndReset
    /\ UNCHANGED <<swr, gets, getsIssued, postsIssued>>

\* handleAddCustomer after the await: fetch rejected, or !response.ok and the
\* body thrown; the catch block only logs
PostFail(i, err) ==
    /\ i \in 1..Len(posts)
    /\ Answered(i, "failed")
    /\ consoleErrors' = consoleErrors + 1
    /\ UNCHANGED <<form, swr, gets, getsIssued, postsIssued>>

-----------------------------------------------------------------------------
(* useSWR('/api/customers', fetcher) *)

\* SWR revalidates by itself (focus, reconnect, retry after an error) unless
\* the current request is still under way
Revalidate ==
    /\ \A k \in 1..Len(gets) : ~gets[k].current
    /\ GetBudget
    /\ StartGet(0)
    /\ UNCHANGED <<form, swr, posts, postsIssued, consoleErrors, answered>>

\* the fetcher returns body: SWR takes it unless the request was superseded
GetOk(k, body) ==
    /\ k \in 1..Len(gets)
    /\ gets' = RemoveAt(gets, k)
    /\ IF gets[k].current
       THEN /\ data' = Some(body)
            /\ error' = None
            /\ lastFetched' = Some(body)
       ELSE UNCHANGED swr
    /\ UNCHANGED <<form, posts, getsIssued, postsIssued, consoleErrors, answered>>

\* mutant of GetFail: the stale data is dropped with the error
GetFail_ClearsData(k, err) ==
    /\ k \in 1..Len(gets)
    /\ gets' = RemoveAt(gets, k)
    /\ error' = Some(err)
    /\ data' = None
    /\ UNCHANGED <<form, lastFetched, posts, getsIssued, postsIssued,
                   consoleErrors, answered>>

\* the fetcher throws (fetch or json() rejected, or !response.ok): SWR keeps
\* the data it has and exposes what was thrown
GetFail(k, err) ==
    /\ k \in 1..Len(gets)
    /\ gets' = RemoveAt(gets, k)
    /\ error' = Some(err)
    /\ UNCHANGED <<form, data, lastFetched, posts, getsIssued, postsIssued,
                   consoleErrors, answered>>

-----------------------------------------------------------------------------

Next ==
    \/ handleClickOpen
    \/ handleClose
    \/ \E name \in NameFields, value \in NameInputs : handleInputChange(name, value)
    \/ \E value \in EmailInputs : EmailChange(value)
    \/ ClickCreate
    \/ \E i \in 1..Len(posts) : PostOk(i)
    \/ \E i \in 1..Len(posts), err \in Failures : PostFail(i, err)
    \/ Revalidate
    \/ \E k \in 1..Len(gets), body \in GetBodies : GetOk(k, body)
    \/ \E k \in 1..Len(gets), err \in Failures : GetFail(k, err)

Spec == Init /\ [][Next]_vars

-----------------------------------------------------------------------------
(* Properties *)

BobAtExample == <<"b","o","b","@","e","x","a","m","p","l","e">>

\* a step in which the answer to a POST is observed
PostAnswered(status) == Len(posts') < Len(posts) /\ answered'.status = status

\* C1: the Create control is enabled exactly when firstName, lastName and
\* email are non-empty and the email passes validateEmail, whatever
\* businessName and emailError are.
C1_CreateEnabledIff ==
    (~CreateDisabled) <=> /\ newCustomer.firstName # ""
                          /\ newCustomer.lastName # ""
                          /\ email # <<>>
                          /\ validateEmail(email)

C1_Witness ==
    open /\ ~CreateDisabled /\ newCustomer.businessName = ""

\* C2: every step that ends with the dialog closed, and every step that opens
\* it, ends with firstName, lastName, businessName, email and emailError
\* empty.
C2_CloseResetsDraft ==
    [][(~open' \/ ~open) => DraftEmpty']_vars

\* the dialog is open again and blank after a draft was typed and submitted
C2_Witness ==
    open /\ DraftEmpty /\ postsIssued > 0

\* C3: a step that observes a successful POST answer starts one revalidation
\* GET for that POST, empties the draft and closes the dialog; a revalidation
\* asked by a POST is started in such a step only, and no GET asked by a POST
\* is in flight while that POST is.
C3_SuccessRevalidatesAndCloses ==
    /\ [](\A g \in 1..Len(gets), p \in 1..Len(posts) : gets[g].by # posts[p].id)
    /\ [][/\ PostAnswered("ok") =>
                /\ getsIssued' = getsIssued + 1
                /\ Len(gets') = Len(gets) + 1
                /\ gets'[Len(gets')].current
                /\ \E p \in 1..Len(posts) :
                      /\ posts' = RemoveAt(posts, p)
                      /\ gets'[Len(gets')].by = posts[p].id
                /\ ~open'
                /\ DraftEmpty'
          /\ (getsIssued' # getsIssued /\ gets'[Len(gets')].by # 0)
                => PostAnswered("ok")]_vars

\* a POST was answered with success: dialog closed, its revalidation in flight
C3_Witness ==
    /\ answered.status = "ok"
    /\ ~open
    /\ \E g \in 1..Len(gets) : gets[g].by # 0 /\ gets[g].current

\* C4: a step that observes a failed POST answer logs it and changes nothing
\* else: dialog visibility, draft and emailError, list data and error stay as
\* they were and no GET is started.
C4_FailureOnlyLogged ==
    [][PostAnswered("failed") =>
          /\ consoleErrors' = consoleErrors + 1
          /\ UNCHANGED <<open, newCustomer, email, emailError>>
          /\ UNCHANGED <<data, error, gets, getsIssued>>]_vars

\* a POST failed and the dialog is still open with what was typed
C4_Witness ==
    answered.status = "failed" /\ consoleErrors > 0 /\ open /\ ~CreateDisabled

C6_AtMostOnePostInFlight ==
    Len(posts) <= 1

\* C6 amended: a step issues at most one POST, and only from an open dialog
\* whose Create control is enabled.
C6_OnePostPerClick ==
    [][/\ Len(posts') <= Len(posts) + 1
       /\ postsIssued' <= postsIssued + 1
       /\ postsIssued' # postsIssued => open /\ ~CreateDisabled]_vars

\* two POSTs in flight
C6_Witness ==
    Len(posts) = 2

\* C7: with "bob@example" in the email field and both names filled,
\* validation fails, the helper text of the email field is the invalid-email
\* message and Create is disabled.
C7_MalformedEmailShowsMessage ==
    (/\ open
     /\ newCustomer.firstName # ""
     /\ newCustomer.lastName # ""
     /\ email = BobAtExample) =>
        /\ ~validateEmail(email)
        /\ EmailHelperText = InvalidEmailMessage
        /\ CreateDisabled

\* C8 as stated: after a GET answered with an ApiError the page shows
\* "Error: " and the message, and no table.
C8_GetErrorShownWithoutTable ==
    [][\A k \in 1..Len(gets), err \in ApiErrors :
          GetFail(k, err) =>
              /\ ErrorText' = Some(<<"Error: ", err.message>>)
              /\ ~TableRendered']_vars

\* C8 amended: after a GET answered with an ApiError the page shows "Error: "
\* and the message; the table is shown exactly when an earlier GET was
\* accepted, with the list it had.
C8_GetErrorShownBesideStaleTable ==
    [][\A k \in 1..Len(gets), err \in ApiErrors :
          GetFail(k, err) =>
              /\ ErrorText' = Some(<<"Error: ", err.message>>)
              /\ TableRendered' <=> lastFetched # None
              /\ data' = data]_vars

\* the error is shown beside the table of an earlier fetch
C8_Witness ==
    /\ ErrorText = Some(<<"Error: ", "Server error">>)
    /\ TableRendered

\* C9: a step that issues a POST issues one, whose body is the draft of that
\* moment, with firstName and lastName non-empty and an email that passes
\* validateEmail; so no POST leaves while the email fails validateEmail.
C9_PostCarriesValidDraft ==
    [][postsIssued' # postsIssued =>
          /\ Len(posts') = Len(posts) + 1
          /\ posts'[Len(posts')].body =
                [firstName |-> newCustomer.firstName,
                 lastName |-> newCustomer.lastName,
                 businessName |-> newCustomer.businessName,
                 email |-> email]
          /\ newCustomer.firstName # ""
          /\ newCustomer.lastName # ""
          /\ validateEmail(email)]_vars

\* a POST with a business name is in flight
C9_Witness ==
    \E p \in 1..Len(posts) : posts[p].body.businessName # ""

\* C10: a successful answer to a POST issued before the dialog was closed,
\* arriving while the dialog is open again with a draft typed in, closes the
\* dialog, empties that draft and starts a revalidation.
C10_LateSuccessStillCloses ==
    [][\A p \in 1..Len(posts) :
          (/\ posts[p].closedSince
           /\ open
           /\ ~DraftEmpty
           /\ posts' = RemoveAt(posts, p)
           /\ answered'.status = "ok") =>
              /\ ~open'
              /\ DraftEmpty'
              /\ getsIssued' = getsIssued + 1
              /\ gets'[Len(gets')].by = posts[p].id]_vars

\* such an answer has arrived
C10_Witness ==
    answered.status = "ok" /\ answered.late /\ ~open /\ DraftEmpty

====
